---------------------------- MODULE Spec2Model ----------------------------
(***************************************************************************)
(* A model of the trip_tracker stores: services/auth.py (credential       *)
(* store), services/data_manager.py (expense store) and                    *)
(* services/settings_manager.py (settings store).                          *)
(*                                                                         *)
(* A Python str is a sequence of one-character strings, so that strip(),   *)
(* lower() and SQLite's BINARY collation are computed, not assumed.  The   *)
(* three stores share one database file but no table, so each store has a  *)
(* specification of its own over the shared variables.                     *)
(***************************************************************************)
EXTENDS Integers, Sequences, FiniteSets, TLC

VARIABLES
    users,      \* table users: the rows in id order
    created,    \* history: the (email, password) arguments of the create_user calls that returned normally
    authRet,    \* the last credential-store call and what it returned or raised
    expenses,   \* table expenses: the set of rows
    nextId,     \* the id AUTOINCREMENT gives the next expense row
    now,        \* the UTC clock
    expRet,     \* the last expense-store call and what it returned or raised
    settings,   \* table user_settings: user id -> row, for the users that have a row
    setRet,     \* the last settings-store call of the serial callers
    run,        \* per concurrent session: the call it is in, where, and what it read
    raceLog,    \* history: two overlapping add_category calls and the order of their writes
    session_state,  \* st.session_state of the browser session
    verified,   \* history: the addresses verify_user accepted in the browser session
    uiRet       \* the last run of a page script

authVars == <<users, created, authRet>>

expVars == <<expenses, nextId, now, expRet>>

setVars == <<settings, setRet, run, raceLog>>

uiVars == <<session_state, verified, uiRet>>

vars == <<authVars, expVars, setVars, uiVars>>

(***************************************************************************)
(* Python str helpers                                                      *)
(***************************************************************************)

\* str.strip() removes these from both ends.
Whitespace == {" ", "\t"}

RECURSIVE LStrip(_)
LStrip(s) ==
    IF s # <<>> /\ Head(s) \in Whitespace THEN LStrip(Tail(s)) ELSE s

RECURSIVE RStrip(_)
RStrip(s) ==
    IF s # <<>> /\ s[Len(s)] \in Whitespace THEN RStrip(SubSeq(s, 1, Len(s) - 1)) ELSE s

Strip(s) == LStrip(RStrip(s))

LowerChar(c) ==
    CASE c = "A" -> "a"
      [] c = "B" -> "b"
      [] c = "C" -> "c"
      [] c = "D" -> "d"
      [] OTHER -> c

Lower(s) == [i \in 1..Len(s) |-> LowerChar(s[i])]

(***************************************************************************)
(* Credential store: services/auth.py                                      *)
(***************************************************************************)

\* _SALT, the fallback of os.getenv("APP_AUTH_SALT", ...); "*" stands for U+2744.
SALT == <<"*", "a", "u", "t", "h", "_", "s", "a", "l", "t">>

_hash_SaltOnly(pwd) == [alg |-> "sha256", data |-> SALT]

\* hashlib.sha256((pwd + _SALT).encode()).hexdigest(): SHA-256 is taken to be
\* collision free, so the digest is determined by, and determines, its input.
_hash(pwd) == [alg |-> "sha256", data |-> pwd \o SALT]

\* The two ValueError messages of create_user.
MsgRequired == "E-mail e senha sao obrigatorios."

MsgDuplicate == "E-mail ja cadastrado."

NoError == [type |-> "none", msg |-> ""]

ValueError(m) == [type |-> "ValueError", msg |-> m]

NormalizeEmail_StripOnly(email) == Strip(email)

\* email.strip().lower()
NormalizeEmail(email) == Lower(Strip(email))

\* The UNIQUE constraint on users.email (BINARY collation: exact equality).
EmailTaken(tbl, email) == \E i \in 1..Len(tbl) : tbl[i].email = email

\* INSERT INTO users (email, password_hash): AUTOINCREMENT id, or IntegrityError.
InsertUser(tbl, email, hash) ==
    IF EmailTaken(tbl, email)
    THEN [tbl |-> tbl, integrityError |-> TRUE]
    ELSE [tbl |-> Append(tbl, [id |-> Len(tbl) + 1, email |-> email, password_hash |-> hash]),
          integrityError |-> FALSE]

\* create_user(email, password): the table afterwards and the exception raised.
create_user(tbl, email, password) ==
    LET e == NormalizeEmail(email) IN
    IF e = <<>> \/ password = <<>>
    THEN [tbl |-> tbl, exc |-> ValueError(MsgRequired)]
    ELSE LET r == InsertUser(tbl, e, _hash(password)) IN
         IF r.integrityError
         THEN [tbl |-> tbl, exc |-> ValueError(MsgDuplicate)]
         ELSE [tbl |-> r.tbl, exc |-> NoError]

\* SELECT password_hash FROM users WHERE email = ?, fetchone()
SelectUser(tbl, email) == {i \in 1..Len(tbl) : tbl[i].email = email}

\* verify_user(email, password)
verify_user(tbl, email, password) ==
    LET e == NormalizeEmail(email) IN
    IF e = <<>> \/ password = <<>>
    THEN FALSE
    ELSE LET rows == SelectUser(tbl, e) IN
         IF rows = {}
         THEN FALSE
         ELSE LET i == CHOOSE j \in rows : TRUE IN
              tbl[i].password_hash = _hash(password)

\* list_users(): SELECT email FROM users ORDER BY id
list_users(tbl) == [i \in 1..Len(tbl) |-> tbl[i].email]

\* The e-mail texts the callers type in.
Emails ==
    { <<" ", "A", "@", "B", " ">>,
      <<"a", "@", "b">>,
      <<"a", "@", "B", "\t">>,
      <<"c", "@", "d">>,
      <<" ", "\t">>,
      <<>> }

\* The passwords the callers type in.
Passwords == { <<>>, <<"p">>, <<"P">>, <<" ">> }

\* The users table holds at most this many rows.
MaxUsers == 3

AuthInit ==
    /\ users = <<>>
    /\ created = <<>>
    /\ authRet = [op |-> "none", email |-> <<>>, password |-> <<>>, taken |-> FALSE,
                  exc |-> NoError, val |-> FALSE]

CreateUser ==
    \E email \in Emails, password \in Passwords :
        LET r == create_user(users, email, password) IN
        /\ Len(r.tbl) <= MaxUsers
        /\ users' = r.tbl
        /\ created' = IF r.exc = NoError
                      THEN Append(created, [email |-> email, password |-> password])
                      ELSE created
        /\ authRet' = [op |-> "create_user", email |-> email, password |-> password,
                       taken |-> \E i \in 1..Len(users) : users[i].email = Lower(Strip(email)),
                       exc |-> r.exc, val |-> FALSE]
        /\ UNCHANGED <<expVars, setVars, uiVars>>

VerifyUser ==
    \E email \in Emails, password \in Passwords :
        /\ authRet' = [op |-> "verify_user", email |-> email, password |-> password,
                       taken |-> \E i \in 1..Len(users) : users[i].email = Lower(Strip(email)),
                       exc |-> NoError, val |-> verify_user(users, email, password)]
        /\ UNCHANGED <<users, created>>
        /\ UNCHANGED <<expVars, setVars, uiVars>>

AuthNext == CreateUser \/ VerifyUser

(***************************************************************************)
(* Expense store: services/data_manager.py                                 *)
(*                                                                         *)
(* A date argument is a Python value with its type: a date, a datetime or  *)
(* a str.  The text of a date is a sequence of character codes, which      *)
(* SQLite's BINARY collation compares code by code.  The other texts       *)
(* (user id, category, ...) are only ever tested for equality and are      *)
(* strings.  Amounts are numbers that float() represents exactly.          *)
(***************************************************************************)

\* Python None, SQL NULL.
None == "<None>"

\* A keyword argument the caller did not pass.
NotGiven == "<not given>"

DateObj(y, m, d) == [t |-> "date", v |-> <<y, m, d>>]

DateTimeObj(y, m, d, hh, mi) == [t |-> "datetime", v |-> <<y, m, d, hh, mi>>]

StrObj(codes) == [t |-> "str", v |-> codes]

NoneObj == [t |-> "None", v |-> <<>>]

RECURSIVE Digits_Unpadded(_, _)
Digits_Unpadded(n, width) ==
    IF n < 10 THEN <<48 + n>> ELSE Append(Digits_Unpadded(n \div 10, width), 48 + (n % 10))

\* "%0<width>d" % n: the decimal digits of n, zero padded to width, as codes.
RECURSIVE Digits(_, _)
Digits(n, width) ==
    IF width = 0 THEN <<>> ELSE Append(Digits(n \div 10, width - 1), 48 + (n % 10))

\* date.isoformat(): YYYY-MM-DD
Isoformat(v) == Digits(v[1], 4) \o <<45>> \o Digits(v[2], 2) \o <<45>> \o Digits(v[3], 2)

\* datetime -> .date(), date -> .isoformat(), anything else as it is.
DateToText(x) ==
    LET d == IF x.t = "datetime" THEN DateObj(x.v[1], x.v[2], x.v[3]) ELSE x IN
    IF d.t = "date" THEN Isoformat(d.v) ELSE d.v

\* float(amount)
Float(x) == x

\* a < b for TEXT under the BINARY collation (memcmp).
RECURSIVE TextLess(_, _)
TextLess(a, b) ==
    IF b = <<>> THEN FALSE
    ELSE IF a = <<>> THEN TRUE
    ELSE IF a[1] # b[1] THEN a[1] < b[1]
    ELSE TextLess(Tail(a), Tail(b))

TextLeq(a, b) == a = b \/ TextLess(a, b)

\* datetime('now'), the column default of created_at and updated_at.
SqliteNow(t) == [fmt |-> "YYYY-MM-DD HH:MM:SS", t |-> t]

\* datetime.utcnow().isoformat()
UtcnowIsoformat(t) == [fmt |-> "YYYY-MM-DDTHH:MM:SS.ffffff", t |-> t]

CurrencyOrDefault_AlwaysBRL(currency) == "BRL"

\* currency: str = "BRL"
CurrencyOrDefault(currency) == IF currency = NotGiven THEN "BRL" ELSE currency

\* add_expense(**a): the table afterwards and cur.lastrowid.
add_expense(tbl, id, t, a) ==
    [tbl |-> tbl \cup
        {[id |-> id,
          user_id |-> a.user_id,
          date |-> DateToText(a.date),
          amount |-> Float(a.amount),
          currency |-> CurrencyOrDefault(a.currency),
          category |-> a.category,
          description |-> a.description,
          account |-> a.account,
          receipt_path |-> a.receipt_path,
          created_at |-> SqliteNow(t),
          updated_at |-> SqliteNow(t)]},
     val |-> id]

RowBefore_IdAscending(r, q) ==
    \/ TextLess(q.date, r.date)
    \/ (q.date = r.date /\ r.id < q.id)

\* ORDER BY date DESC, id DESC: r comes before q.
RowBefore(r, q) ==
    \/ TextLess(q.date, r.date)
    \/ (q.date = r.date /\ r.id > q.id)

RECURSIVE OrderBy(_)
OrderBy(rows) ==
    IF rows = {} THEN <<>>
    ELSE LET first == CHOOSE r \in rows : \A q \in rows \ {r} : RowBefore(r, q) IN
         <<first>> \o OrderBy(rows \ {first})

\* WHERE user_id = ? [AND date >= ?] [AND date <= ?]
InRange(r, user_id, start_date, end_date) ==
    /\ r.user_id = user_id
    /\ start_date # NoneObj => TextLeq(DateToText(start_date), r.date)
    /\ end_date # NoneObj => TextLeq(r.date, DateToText(end_date))

\* list_expenses(user_id, start_date, end_date, category, account)
list_expenses(tbl, user_id, start_date, end_date, category, account) ==
    OrderBy({r \in tbl :
        /\ InRange(r, user_id, start_date, end_date)
        /\ category # None => r.category = category
        /\ account # None => r.account = account})

MatchesRow_AnyOwner(r, expense_id, user_id) == r.id = expense_id

\* WHERE id = ? AND user_id = ?
MatchesRow(r, expense_id, user_id) == r.id = expense_id /\ r.user_id = user_id

\* delete_expense(expense_id, user_id)
delete_expense(tbl, expense_id, user_id) ==
    {r \in tbl : ~MatchesRow(r, expense_id, user_id)}

allowed_WithId ==
    {"date", "amount", "currency", "category", "description", "account", "receipt_path", "id"}

\* The keys update_expense accepts.
allowed == {"date", "amount", "currency", "category", "description", "account", "receipt_path"}

MsgUnknown == "Unknown field(s)"

Assign_KeepsUpdatedAt(r, fields, t) ==
    [k \in DOMAIN r |-> IF k \in DOMAIN fields THEN fields[k] ELSE r[k]]

\* UPDATE expenses SET <k = ? for k in fields>, updated_at = ?
Assign(r, fields, t) ==
    [k \in DOMAIN r |->
        IF k \in DOMAIN fields THEN fields[k]
        ELSE IF k = "updated_at" THEN UtcnowIsoformat(t)
        ELSE r[k]]

\* update_expense(expense_id, user_id, **fields): the table afterwards and the
\* exception raised.
update_expense(tbl, t, expense_id, user_id, fields) ==
    IF DOMAIN fields = {}
    THEN [tbl |-> tbl, exc |-> NoError]
    ELSE IF DOMAIN fields \ allowed # {}
    THEN [tbl |-> tbl, exc |-> ValueError(MsgUnknown)]
    ELSE [tbl |-> {IF MatchesRow(r, expense_id, user_id) THEN Assign(r, fields, t) ELSE r :
                    r \in tbl},
          exc |-> NoError]

MsgMultiple == "got multiple values for keyword argument"

TypeError(m) == [type |-> "TypeError", msg |-> m]

\* The call update_expense(expense_id=..., user_id=..., **patch): a patch key
\* that names one of the two keyword-only parameters cannot be bound to
\* **fields, and the call raises TypeError before the body runs.
call_update_expense(tbl, t, expense_id, user_id, patch) ==
    IF DOMAIN patch \cap {"expense_id", "user_id"} # {}
    THEN [tbl |-> tbl, exc |-> TypeError(MsgMultiple)]
    ELSE update_expense(tbl, t, expense_id, user_id, patch)

SqlNull == [null |-> TRUE, v |-> 0]

SqlNumber(n) == [null |-> FALSE, v |-> n]

RECURSIVE AmountTotal(_)
AmountTotal(rows) ==
    IF rows = {} THEN 0
    ELSE LET r == CHOOSE q \in rows : TRUE IN r.amount + AmountTotal(rows \ {r})

\* SUM(amount): NULL over no rows.
SqlSum(rows) == IF rows = {} THEN SqlNull ELSE SqlNumber(AmountTotal(rows))

Coalesce_Absent(x, default) == x

\* COALESCE(x, default)
Coalesce(x, default) == IF x.null THEN SqlNumber(default) ELSE x

\* total_spent(user_id, start_date, end_date): float(total), which raises
\* TypeError on None.
total_spent(tbl, user_id, start_date, end_date) ==
    LET total == Coalesce(SqlSum({r \in tbl : InRange(r, user_id, start_date, end_date)}), 0) IN
    IF total.null
    THEN [exc |-> TypeError("float() argument must be a string or a number"), val |-> None]
    ELSE [exc |-> NoError, val |-> Float(total.v)]

\* The user ids of the callers.
UserIds == {"ana@x", "bob@x"}

\* The texts "2024-01-02" and "2024-01-10".
Text_2024_01_02 == <<50, 48, 50, 52, 45, 48, 49, 45, 48, 50>>

Text_2024_01_10 == <<50, 48, 50, 52, 45, 48, 49, 45, 49, 48>>

\* The expense forms the callers submit (user_id apart).
ExpenseInputs ==
    { [date |-> DateObj(2024, 1, 2), amount |-> 5, currency |-> NotGiven,
       category |-> "Transporte", description |-> "taxi", account |-> "Nubank",
       receipt_path |-> None],
      [date |-> DateTimeObj(2024, 1, 10, 15, 30), amount |-> 7, currency |-> "USD",
       category |-> "Lazer", description |-> "", account |-> "Dinheiro",
       receipt_path |-> "uploads/receipt_20240110153000_a.png"],
      [date |-> StrObj(Text_2024_01_02), amount |-> 0, currency |-> NotGiven,
       category |-> "Lazer", description |-> "museu", account |-> "Nubank",
       receipt_path |-> None] }

\* The patches the callers pass to update_expense.
Patches ==
    { <<>>,
      [date |-> Text_2024_01_10, amount |-> 9],
      [user_id |-> "bob@x"],
      [id |-> 2],
      [amount |-> 9, created_at |-> SqliteNow(0)] }

\* The date filters of the callers.
DateFilters == {NoneObj, DateObj(2024, 1, 2), DateTimeObj(2024, 1, 10, 8, 0)}

CategoryFilters == {None, "Lazer"}

AccountFilters == {None, "Nubank"}

\* At most this many expenses are ever added.
MaxId == 2

\* The clock stops here.
MaxNow == 1

ExpenseInit ==
    /\ expenses = {}
    /\ nextId = 1
    /\ now = 0
    /\ expRet = [op |-> "none", user_id |-> None, arg |-> None, exc |-> NoError, val |-> None]

AddExpense ==
    \E user_id \in UserIds, input \in ExpenseInputs :
        LET a == [k \in DOMAIN input \cup {"user_id"} |->
                    IF k = "user_id" THEN user_id ELSE input[k]]
            r == add_expense(expenses, nextId, now, a)
        IN /\ nextId <= MaxId
           /\ expenses' = r.tbl
           /\ nextId' = nextId + 1
           /\ expRet' = [op |-> "add_expense", user_id |-> user_id, arg |-> input,
                         exc |-> NoError, val |-> r.val]
           /\ UNCHANGED now
           /\ UNCHANGED <<authVars, setVars, uiVars>>

ListExpenses ==
    \E user_id \in UserIds, start_date \in DateFilters, end_date \in DateFilters,
       category \in CategoryFilters, account \in AccountFilters :
        LET rows == list_expenses(expenses, user_id, start_date, end_date, category, account) IN
        /\ expRet' = [op |-> "list_expenses", user_id |-> user_id, arg |-> None,
                      exc |-> NoError, val |-> [i \in 1..Len(rows) |-> rows[i].id]]
        /\ UNCHANGED <<expenses, nextId, now>>
        /\ UNCHANGED <<authVars, setVars, uiVars>>

DeleteExpense ==
    \E user_id \in UserIds, expense_id \in 1..MaxId :
        /\ expenses' = delete_expense(expenses, expense_id, user_id)
        /\ expRet' = [op |-> "delete_expense", user_id |-> user_id, arg |-> expense_id,
                      exc |-> NoError, val |-> None]
        /\ UNCHANGED <<nextId, now>>
        /\ UNCHANGED <<authVars, setVars, uiVars>>

UpdateExpense ==
    \E user_id \in UserIds, expense_id \in 1..MaxId, fields \in Patches :
        LET r == call_update_expense(expenses, now, expense_id, user_id, fields) IN
        /\ expenses' = r.tbl
        /\ expRet' = [op |-> "update_expense", user_id |-> user_id,
                      arg |-> [expense_id |-> expense_id, fields |-> fields],
                      exc |-> r.exc, val |-> None]
        /\ UNCHANGED <<nextId, now>>
        /\ UNCHANGED <<authVars, setVars, uiVars>>

TotalSpent ==
    \E user_id \in UserIds, start_date \in DateFilters, end_date \in DateFilters :
        LET r == total_spent(expenses, user_id, start_date, end_date) IN
        /\ expRet' = [op |-> "total_spent", user_id |-> user_id, arg |-> None,
                      exc |-> r.exc, val |-> r.val]
        /\ UNCHANGED <<expenses, nextId, now>>
        /\ UNCHANGED <<authVars, setVars, uiVars>>

\* Time passes between two calls.
Tick ==
    /\ now < MaxNow
    /\ now' = now + 1
    /\ UNCHANGED <<expenses, nextId, expRet>>
    /\ UNCHANGED <<authVars, setVars, uiVars>>

ExpenseNext ==
    \/ AddExpense
    \/ ListExpenses
    \/ DeleteExpense
    \/ UpdateExpense
    \/ TotalSpent
    \/ Tick

(***************************************************************************)
(* Settings store: services/settings_manager.py                            *)
(*                                                                         *)
(* Table user_settings is a function from the user ids that have a row to  *)
(* their rows.  A name is a Python str, a sequence of characters; the list *)
(* columns hold JSON text.  Each operator below named after an SQL         *)
(* statement is one statement, run in a connection and transaction of its  *)
(* own: the unit of interleaving between concurrent callers.               *)
(***************************************************************************)

DEFAULT_CATEGORIES ==
    << <<"A", "l", "i", "m", "e", "n", "t", "a", "c", "a", "o">>,
       <<"T", "r", "a", "n", "s", "p", "o", "r", "t", "e">>,
       <<"H", "o", "s", "p", "e", "d", "a", "g", "e", "m">>,
       <<"L", "a", "z", "e", "r">>,
       <<"C", "o", "m", "p", "r", "a", "s">>,
       <<"O", "u", "t", "r", "o", "s">> >>

DEFAULT_ACCOUNTS == <<>>

\* json.dumps(list of str): the JSON text of the list.
JsonDumps(list) == [json |-> list]

\* json.loads(text)
JsonLoads(text) == text.json

In_FirstOnly(x, list) == list # <<>> /\ list[1] = x

\* x in list
In(x, list) == \E i \in 1..Len(list) : list[i] = x

\* list.remove(x): without the first element equal to x.
RECURSIVE ListRemove(_, _)
ListRemove(list, x) ==
    IF list = <<>> THEN <<>>
    ELSE IF Head(list) = x THEN Tail(list)
    ELSE <<Head(list)>> \o ListRemove(Tail(list), x)

EnsureRow_NoDefaults(tbl, user_id) ==
    IF user_id \in DOMAIN tbl
    THEN tbl
    ELSE [u \in DOMAIN tbl \cup {user_id} |->
            IF u = user_id
            THEN [categories |-> JsonDumps(<<>>),
                  accounts |-> JsonDumps(<<>>),
                  monthly_budget |-> SqlNull]
            ELSE tbl[u]]

EnsureRow_Replace(tbl, user_id) ==
    [u \in DOMAIN tbl \cup {user_id} |->
        IF u = user_id
        THEN [categories |-> JsonDumps(DEFAULT_CATEGORIES),
              accounts |-> JsonDumps(DEFAULT_ACCOUNTS),
              monthly_budget |-> SqlNull]
        ELSE tbl[u]]

\* _ensure_row: INSERT OR IGNORE INTO user_settings ... VALUES (?,?,?,?)
EnsureRow(tbl, user_id) ==
    IF user_id \in DOMAIN tbl
    THEN tbl
    ELSE [u \in DOMAIN tbl \cup {user_id} |->
            IF u = user_id
            THEN [categories |-> JsonDumps(DEFAULT_CATEGORIES),
                  accounts |-> JsonDumps(DEFAULT_ACCOUNTS),
                  monthly_budget |-> SqlNull]
            ELSE tbl[u]]

\* get_settings: SELECT * FROM user_settings WHERE user_id = ?, and the dict
\* built from the row.
SelectSettings(tbl, user_id) ==
    [categories |-> JsonLoads(tbl[user_id].categories),
     accounts |-> JsonLoads(tbl[user_id].accounts),
     monthly_budget |-> tbl[user_id].monthly_budget]

\* get_settings(user_id): the table afterwards and the dict returned.
get_settings(tbl, user_id) ==
    LET t == EnsureRow(tbl, user_id) IN
    [tbl |-> t, val |-> SelectSettings(t, user_id)]

UpdateField_Merging(tbl, user_id, field, value) ==
    IF user_id \in DOMAIN tbl
    THEN [tbl EXCEPT ![user_id][field] =
            JsonDumps(tbl[user_id][field].json
                      \o SelectSeq(value, LAMBDA x : ~In(x, tbl[user_id][field].json)))]
    ELSE tbl

\* _update_field: UPDATE user_settings SET <field> = ? WHERE user_id = ?
UpdateField(tbl, user_id, field, value) ==
    IF user_id \in DOMAIN tbl
    THEN [tbl EXCEPT ![user_id][field] = JsonDumps(value)]
    ELSE tbl

AddToList_NoMembershipTest(list, name) == [write |-> TRUE, list |-> Append(list, name)]

\* add_category / add_account after the read: whether _update_field is called,
\* and with which list.
AddToList(list, name) ==
    IF In(name, list)
    THEN [write |-> FALSE, list |-> list]
    ELSE [write |-> TRUE, list |-> Append(list, name)]

RemoveFromList_Trimmed(list, name) ==
    IF In(Strip(name), list)
    THEN [write |-> TRUE, list |-> ListRemove(list, Strip(name))]
    ELSE [write |-> FALSE, list |-> list]

\* remove_category / remove_account after the read.
RemoveFromList(list, name) ==
    IF In(name, list)
    THEN [write |-> TRUE, list |-> ListRemove(list, name)]
    ELSE [write |-> FALSE, list |-> list]

\* add_category(user_id, category) and add_account(user_id, account), with
\* field "categories" or "accounts".
add_to(field, tbl, user_id, name) ==
    LET n == Strip(name) IN
    IF n = <<>>
    THEN tbl
    ELSE LET g == get_settings(tbl, user_id)
             a == AddToList(g.val[field], n)
         IN IF a.write THEN UpdateField(g.tbl, user_id, field, a.list) ELSE g.tbl

add_category(tbl, user_id, category) == add_to("categories", tbl, user_id, category)

add_account(tbl, user_id, account) == add_to("accounts", tbl, user_id, account)

\* remove_category(user_id, category) and remove_account(user_id, account)
remove_from(field, tbl, user_id, name) ==
    LET g == get_settings(tbl, user_id)
        a == RemoveFromList(g.val[field], name)
    IN IF a.write THEN UpdateField(g.tbl, user_id, field, a.list) ELSE g.tbl

remove_category(tbl, user_id, category) == remove_from("categories", tbl, user_id, category)

remove_account(tbl, user_id, account) == remove_from("accounts", tbl, user_id, account)

set_monthly_budget_Upsert(tbl, user_id, budget) ==
    [EnsureRow(tbl, user_id) EXCEPT ![user_id].monthly_budget = budget]

\* set_monthly_budget: UPDATE user_settings SET monthly_budget = ? WHERE user_id = ?
set_monthly_budget(tbl, user_id, budget) ==
    IF user_id \in DOMAIN tbl
    THEN [tbl EXCEPT ![user_id].monthly_budget = budget]
    ELSE tbl

\* The texts typed into the category field, and the names asked to be removed.
CategoryInputs ==
    { <<" ", "B", "a", "r", " ">>,
      <<"b", "a", "r">>,
      <<"O", "u", "t", "r", "o", "s">>,
      <<" ", "\t">>,
      <<>> }

\* The texts typed into the account field, and the names asked to be removed.
AccountInputs ==
    { <<"N", "u">>,
      <<"N", "u", " ">>,
      <<>> }

\* The budgets saved: None or a number.
BudgetInputs == {SqlNull, SqlNumber(100)}

SettingsInit ==
    /\ settings = <<>>
    /\ setRet = [op |-> "none", user_id |-> None, arg |-> <<>>, hadRow |-> FALSE]

GetSettings ==
    \E user_id \in UserIds :
        /\ settings' = get_settings(settings, user_id).tbl
        /\ setRet' = [op |-> "get_settings", user_id |-> user_id, arg |-> <<>>,
                      hadRow |-> user_id \in DOMAIN settings]
        /\ UNCHANGED <<run, raceLog>>
        /\ UNCHANGED <<authVars, expVars, uiVars>>

AddCategory ==
    \E user_id \in UserIds, category \in CategoryInputs :
        /\ settings' = add_category(settings, user_id, category)
        /\ setRet' = [op |-> "add_category", user_id |-> user_id, arg |-> category,
                      hadRow |-> user_id \in DOMAIN settings]
        /\ UNCHANGED <<run, raceLog>>
        /\ UNCHANGED <<authVars, expVars, uiVars>>

RemoveCategory ==
    \E user_id \in UserIds, category \in CategoryInputs :
        /\ settings' = remove_category(settings, user_id, category)
        /\ setRet' = [op |-> "remove_category", user_id |-> user_id, arg |-> category,
                      hadRow |-> user_id \in DOMAIN settings]
        /\ UNCHANGED <<run, raceLog>>
        /\ UNCHANGED <<authVars, expVars, uiVars>>

AddAccount ==
    \E user_id \in UserIds, account \in AccountInputs :
        /\ settings' = add_account(settings, user_id, account)
        /\ setRet' = [op |-> "add_account", user_id |-> user_id, arg |-> account,
                      hadRow |-> user_id \in DOMAIN settings]
        /\ UNCHANGED <<run, raceLog>>
        /\ UNCHANGED <<authVars, expVars, uiVars>>

RemoveAccount ==
    \E user_id \in UserIds, account \in AccountInputs :
        /\ settings' = remove_account(settings, user_id, account)
        /\ setRet' = [op |-> "remove_account", user_id |-> user_id, arg |-> account,
                      hadRow |-> user_id \in DOMAIN settings]
        /\ UNCHANGED <<run, raceLog>>
        /\ UNCHANGED <<authVars, expVars, uiVars>>

SetMonthlyBudget ==
    \E user_id \in UserIds, budget \in BudgetInputs :
        /\ settings' = set_monthly_budget(settings, user_id, budget)
        /\ setRet' = [op |-> "set_monthly_budget", user_id |-> user_id, arg |-> budget,
                      hadRow |-> user_id \in DOMAIN settings]
        /\ UNCHANGED <<run, raceLog>>
        /\ UNCHANGED <<authVars, expVars, uiVars>>

SettingsNext ==
    \/ GetSettings
    \/ AddCategory
    \/ RemoveCategory
    \/ AddAccount
    \/ RemoveAccount
    \/ SetMonthlyBudget

(***************************************************************************)
(* Settings store under concurrent callers                                 *)
(*                                                                         *)
(* Two sessions call the settings store at the same time.  A call is the   *)
(* sequence of its SQL statements: INSERT OR IGNORE (_ensure_row), SELECT  *)
(* (get_settings) and, for a list mutation, UPDATE (_update_field); what   *)
(* happens between two statements is local to the caller.                  *)
(***************************************************************************)

Sessions == {"s1", "s2"}

\* The user the two sessions are logged in as.
RaceUserIds == {"ana@x"}

\* The calls the sessions make: the operation and its argument.
RaceCalls ==
    {[op |-> "get_settings", field |-> "", arg |-> <<>>]}
    \cup {[op |-> "add_category", field |-> "categories", arg |-> n] :
            n \in {<<" ", "B", "a", "r", " ">>, <<"b", "a", "r">>, <<" ", "\t">>}}
    \cup {[op |-> "remove_category", field |-> "categories", arg |-> n] :
            n \in {<<"b", "a", "r">>}}
    \cup {[op |-> "add_account", field |-> "accounts", arg |-> n] : n \in {<<"N", "u">>}}
    \cup {[op |-> "remove_account", field |-> "accounts", arg |-> n] : n \in {<<"N", "u">>}}

Idle == [pc |-> "idle", op |-> "", field |-> "", user_id |-> None, arg |-> <<>>, read |-> <<>>]

NoRace == [stage |-> "none", user_id |-> None, first |-> <<>>, last |-> <<>>, pending |-> ""]

\* The other session.
Peer(w) == CHOOSE o \in Sessions : o # w

RaceInit ==
    /\ run = [w \in Sessions |-> Idle]
    /\ raceLog = NoRace

\* A session enters get_settings, add_*, or remove_*: add_* strips its argument
\* and returns at once when nothing is left.
BeginCall(w) ==
    \E user_id \in RaceUserIds, c \in RaceCalls :
        LET adds == c.op \in {"add_category", "add_account"}
            name == IF adds THEN Strip(c.arg) ELSE c.arg
        IN /\ run[w].pc = "idle"
           /\ run' = IF adds /\ name = <<>>
                     THEN run
                     ELSE [run EXCEPT ![w] = [pc |-> "ensure", op |-> c.op, field |-> c.field,
                                               user_id |-> user_id, arg |-> name, read |-> <<>>]]
           /\ UNCHANGED <<settings, setRet, raceLog>>
           /\ UNCHANGED <<authVars, expVars, uiVars>>

\* _ensure_row
EnsureStep(w) ==
    /\ run[w].pc = "ensure"
    /\ settings' = EnsureRow(settings, run[w].user_id)
    /\ run' = [run EXCEPT ![w].pc = "select"]
    /\ raceLog' = IF settings' = settings THEN raceLog ELSE NoRace
    /\ UNCHANGED setRet
    /\ UNCHANGED <<authVars, expVars, uiVars>>

\* The SELECT of get_settings; get_settings itself returns here.
SelectStep(w) ==
    /\ run[w].pc = "select"
    /\ run' = [run EXCEPT ![w] =
                IF run[w].op = "get_settings"
                THEN Idle
                ELSE [run[w] EXCEPT !.pc = "update",
                                    !.read = SelectSettings(settings, run[w].user_id)]]
    /\ UNCHANGED <<settings, setRet, raceLog>>
    /\ UNCHANGED <<authVars, expVars, uiVars>>

\* The membership test on the list read, and _update_field with the whole list.
UpdateStep(w) ==
    LET c == run[w]
        o == run[Peer(w)]
        a == IF c.op \in {"add_category", "add_account"}
             THEN AddToList(c.read[c.field], c.arg)
             ELSE RemoveFromList(c.read[c.field], c.arg)
        \* the peer has read and not yet written, and both add a category that is
        \* new to both lists read
        overlap == /\ c.op = "add_category" /\ a.write
                   /\ o.pc = "update" /\ o.op = "add_category"
                   /\ o.user_id = c.user_id
                   /\ o.arg # c.arg
                   /\ ~In(o.arg, o.read.categories) /\ ~In(c.arg, o.read.categories)
                   /\ ~In(o.arg, c.read.categories)
    IN /\ c.pc = "update"
       /\ settings' = IF a.write THEN UpdateField(settings, c.user_id, c.field, a.list)
                      ELSE settings
       /\ run' = [run EXCEPT ![w] = Idle]
       /\ raceLog' =
            IF overlap
            THEN [stage |-> "first", user_id |-> c.user_id, first |-> c.arg, last |-> o.arg,
                  pending |-> Peer(w)]
            ELSE IF raceLog.stage = "first" /\ raceLog.pending = w
            THEN [raceLog EXCEPT !.stage = "both", !.pending = ""]
            ELSE IF settings' = settings THEN raceLog
            ELSE NoRace
       /\ UNCHANGED setRet
       /\ UNCHANGED <<authVars, expVars, uiVars>>

\* set_monthly_budget: one UPDATE.
BudgetCall(w) ==
    \E user_id \in RaceUserIds, budget \in BudgetInputs :
        /\ run[w].pc = "idle"
        /\ settings' = set_monthly_budget(settings, user_id, budget)
        /\ raceLog' = IF settings' = settings THEN raceLog ELSE NoRace
        /\ UNCHANGED <<run, setRet>>
        /\ UNCHANGED <<authVars, expVars, uiVars>>

RaceNext ==
    \E w \in Sessions :
        \/ BeginCall(w)
        \/ EnsureStep(w)
        \/ SelectStep(w)
        \/ UpdateStep(w)
        \/ BudgetCall(w)

(***************************************************************************)
(* Pages: Login.py, pages/1_Registrar_Gasto.py, pages/2_Dashboard.py,      *)
(* pages/3_Configuracoes.py                                                *)
(*                                                                         *)
(* One browser session.  st.session_state is a function from its keys to   *)
(* their values; each action is one run of a page script, with the button  *)
(* that was clicked, and uiRet records what the run did: the session state *)
(* it started from and the user ids it passed to the stores.               *)
(***************************************************************************)

\* "user_id" in st.session_state
LoggedIn(state) == "user_id" \in DOMAIN state

\* st.session_state.pop("user_id", None)
Pop(state, key) == [k \in DOMAIN state \ {key} |-> state[k]]

\* st.session_state["user_id"] = value
SetItem(state, key, value) ==
    [k \in DOMAIN state \cup {key} |-> IF k = key THEN value ELSE state[k]]

SessionUserId_Raw(login_email) == login_email

\* login_email.strip().lower()
SessionUserId(login_email) == Lower(Strip(login_email))

\* What is typed into the login and registration forms.
LoginEmails ==
    { <<" ", "A", "@", "B", " ">>,
      <<"a", "@", "b">>,
      <<"c", "@", "d">>,
      <<" ", "\t">> }

LoginPasswords == { <<>>, <<"p">>, <<"P">> }

\* What is submitted in the expense form: a date, a number, a category and an
\* account of the select boxes, a description and no receipt.
ExpenseForm(categories, accounts) ==
    [date |-> DateObj(2024, 1, 2),
     amount |-> 5,
     currency |-> NotGiven,
     category |-> IF categories = <<>> THEN <<"O", "u", "t", "r", "o", "s">>
                  ELSE categories[Len(categories)],
     description |-> "",
     account |-> IF accounts = <<>> THEN <<"D", "i", "n", "h", "e", "i", "r", "o">>
                 ELSE accounts[1],
     receipt_path |-> None]

\* The buttons of the settings page, with the text or number of their field.
ConfigEvents ==
    { [ev |-> "none", name |-> <<>>, budget_val |-> SqlNumber(0)],
      [ev |-> "add_category", name |-> <<" ", "B", "a", "r", " ">>, budget_val |-> SqlNumber(0)],
      [ev |-> "remove_category", name |-> <<"B", "a", "r">>, budget_val |-> SqlNumber(0)],
      [ev |-> "save_budget", name |-> <<>>, budget_val |-> SqlNumber(100)] }

NoRun == [page |-> "none", ev |-> "none", ok |-> FALSE, before |-> <<>>,
          stopped |-> FALSE, calls |-> {}]

LoginInit ==
    /\ session_state = <<>>
    /\ verified = {}
    /\ uiRet = NoRun

\* Login.py: the sidebar button "Sair".
Logout ==
    /\ session_state' = Pop(session_state, "user_id")
    /\ uiRet' = [NoRun EXCEPT !.page = "Login", !.ev = "logout", !.ok = TRUE,
                              !.before = session_state]
    /\ UNCHANGED verified
    /\ UNCHANGED <<authVars, expVars, setVars>>

\* Login.py: the button "Entrar" of the login tab, shown when not logged in.
Login ==
    \E login_email \in LoginEmails, login_password \in LoginPasswords :
        LET ok == verify_user(users, login_email, login_password) IN
        /\ ~LoggedIn(session_state)
        /\ session_state' = IF ok
                            THEN SetItem(session_state, "user_id", SessionUserId(login_email))
                            ELSE session_state
        /\ verified' = IF ok THEN verified \cup {NormalizeEmail(login_email)} ELSE verified
        /\ uiRet' = [NoRun EXCEPT !.page = "Login", !.ev = "login", !.ok = ok,
                                  !.before = session_state]
        /\ UNCHANGED <<authVars, expVars, setVars>>

\* Login.py: the button "Cadastrar" of the registration tab, shown when not
\* logged in; the ValueError of create_user is caught and displayed.
Register ==
    \E reg_email \in LoginEmails, reg_password \in LoginPasswords,
       reg_password2 \in LoginPasswords :
        LET r == IF reg_password # reg_password2
                 THEN [tbl |-> users, exc |-> ValueError("As senhas não coincidem.")]
                 ELSE create_user(users, reg_email, reg_password)
        IN /\ ~LoggedIn(session_state)
           /\ Len(r.tbl) <= MaxUsers
           /\ users' = r.tbl
           /\ uiRet' = [NoRun EXCEPT !.page = "Login", !.ev = "register",
                                     !.ok = (r.exc = NoError), !.before = session_state]
           /\ UNCHANGED <<created, authRet, session_state, verified>>
           /\ UNCHANGED <<expVars, setVars>>

\* pages/1_Registrar_Gasto.py: the page is opened, or its form is submitted.
RegistrarGasto ==
    \E submitted \in BOOLEAN :
        IF ~LoggedIn(session_state)
        THEN /\ uiRet' = [NoRun EXCEPT !.page = "1_Registrar_Gasto", !.stopped = TRUE,
                                       !.before = session_state]
             /\ UNCHANGED <<session_state, verified>>
             /\ UNCHANGED <<authVars, expVars, setVars>>
        ELSE LET user_id == session_state["user_id"]
                 g == get_settings(settings, user_id)
                 a == [user_id |-> user_id] @@ ExpenseForm(g.val.categories, g.val.accounts)
                 r == add_expense(expenses, nextId, now, a)
             IN /\ submitted => nextId <= MaxId
                /\ settings' = g.tbl
                /\ expenses' = IF submitted THEN r.tbl ELSE expenses
                /\ nextId' = IF submitted THEN nextId + 1 ELSE nextId
                /\ uiRet' = [NoRun EXCEPT !.page = "1_Registrar_Gasto",
                                          !.ev = IF submitted THEN "submit" ELSE "none",
                                          !.ok = TRUE, !.before = session_state,
                                          !.calls = {user_id}]
                /\ UNCHANGED <<session_state, verified>>
                /\ UNCHANGED <<now, expRet, setRet, run, raceLog>>
                /\ UNCHANGED authVars

\* pages/2_Dashboard.py: list_expenses, and get_monthly_budget when there are
\* expenses and the sidebar filters select some of them.
Dashboard ==
    \E selected \in BOOLEAN :
        IF ~LoggedIn(session_state)
        THEN /\ uiRet' = [NoRun EXCEPT !.page = "2_Dashboard", !.stopped = TRUE,
                                       !.before = session_state]
             /\ UNCHANGED <<session_state, verified>>
             /\ UNCHANGED <<authVars, expVars, setVars>>
        ELSE LET user_id == session_state["user_id"]
                 full == list_expenses(expenses, user_id, NoneObj, NoneObj, None, None)
                 shown == full # <<>> /\ selected
             IN /\ settings' = IF shown THEN get_settings(settings, user_id).tbl
                               ELSE settings
                /\ uiRet' = [NoRun EXCEPT !.page = "2_Dashboard", !.ok = TRUE,
                                          !.stopped = ~shown,
                                          !.before = session_state, !.calls = {user_id}]
                /\ UNCHANGED <<session_state, verified>>
                /\ UNCHANGED <<setRet, run, raceLog>>
                /\ UNCHANGED <<authVars, expVars>>

\* pages/3_Configuracoes.py: the page is opened, or one of its buttons clicked.
Configuracoes ==
    \E e \in ConfigEvents :
        IF ~LoggedIn(session_state)
        THEN /\ uiRet' = [NoRun EXCEPT !.page = "3_Configuracoes", !.stopped = TRUE,
                                       !.before = session_state]
             /\ UNCHANGED <<session_state, verified>>
             /\ UNCHANGED <<authVars, expVars, setVars>>
        ELSE LET user_id == session_state["user_id"]
                 g == get_settings(settings, user_id)
             IN /\ e.ev = "remove_category" => In(e.name, g.val.categories)
                /\ settings' =
                     IF e.ev = "add_category" THEN add_category(g.tbl, user_id, e.name)
                     ELSE IF e.ev = "remove_category" THEN remove_category(g.tbl, user_id, e.name)
                     ELSE IF e.ev = "save_budget"
                     THEN set_monthly_budget(g.tbl, user_id, e.budget_val)
                     ELSE g.tbl
                /\ uiRet' = [NoRun EXCEPT !.page = "3_Configuracoes", !.ev = e.ev, !.ok = TRUE,
                                          !.before = session_state, !.calls = {user_id}]
                /\ UNCHANGED <<session_state, verified>>
                /\ UNCHANGED <<setRet, run, raceLog>>
                /\ UNCHANGED <<authVars, expVars>>

LoginNext ==
    \/ Logout
    \/ Login
    \/ Register
    \/ RegistrarGasto
    \/ Dashboard
    \/ Configuracoes

(***************************************************************************)
(* Specifications                                                          *)
(***************************************************************************)

Init == AuthInit /\ ExpenseInit /\ SettingsInit /\ RaceInit /\ LoginInit

AuthSpec == Init /\ [][AuthNext]_vars

ExpenseSpec == Init /\ [][ExpenseNext]_vars

SettingsSpec == Init /\ [][SettingsNext]_vars

SettingsRaceSpec == Init /\ [][RaceNext]_vars

LoginSpec == Init /\ [][LoginNext]_vars

(***************************************************************************)
(* Credential store: properties                                            *)
(***************************************************************************)

\* Two e-mail texts name the same address: equal after trimming the surrounding
\* whitespace and lower-casing.
SameAddress(e1, e2) == Lower(Strip(e1)) = Lower(Strip(e2))

RowsOf(tbl, e) == {i \in 1..Len(tbl) : tbl[i].email = Lower(Strip(e))}

\* The exception type create_user raises for an empty field.
ValidationErrorType == create_user(<<>>, <<>>, <<>>).exc.type

\* What C1 says of the table: from any reachable table in which the address is
\* not yet registered, the first of two calls for the same non-empty address
\* succeeds, the second is refused under the given test of its exception, and
\* the refused call leaves the table as it was, with one row for the address
\* holding the first call's hash.
DuplicateRefused(Refusal(_)) ==
    \A e1 \in Emails, e2 \in Emails, p1 \in Passwords, p2 \in Passwords :
        (/\ SameAddress(e1, e2)
         /\ Lower(Strip(e1)) # <<>>
         /\ p1 # <<>> /\ p2 # <<>>
         /\ RowsOf(users, e1) = {})
        => LET r1 == create_user(users, e1, p1)
               r2 == create_user(r1.tbl, e2, p2)
           IN /\ r1.exc = NoError
              /\ Refusal(r2.exc)
              /\ r2.tbl = r1.tbl
              /\ Cardinality(RowsOf(r2.tbl, e2)) = 1
              /\ \A i \in RowsOf(r2.tbl, e2) : r2.tbl[i].password_hash = _hash(p1)

\* The rows are those of the calls that returned normally, in order, one per
\* address, each with the hash of that call's password.
UsersAreFirstRegistrations ==
    /\ Len(users) = Len(created)
    /\ \A i \in 1..Len(users) :
        /\ users[i].email = Lower(Strip(created[i].email))
        /\ users[i].password_hash = _hash(created[i].password)
    /\ \A i \in 1..Len(users), j \in 1..Len(users) :
        SameAddress(created[i].email, created[j].email) => i = j

\* C1 as stated: the second of two createUser calls for the same normalized
\* e-mail fails with DuplicateUserError, an error of another kind than the
\* ValidationError raised for empty fields, and leaves the table unchanged with
\* one row holding the first call's hash.
C1_DuplicateIsDistinctError ==
    /\ DuplicateRefused(LAMBDA exc : exc.type \notin {"none", ValidationErrorType})
    /\ UsersAreFirstRegistrations

\* C1 amended: the second call fails with a ValueError, the exception type also
\* raised for empty fields, told apart from it only by its message; the table
\* is unchanged, with one row for the e-mail holding the first call's hash.
C1_DuplicateRefusedByMessage ==
    /\ DuplicateRefused(LAMBDA exc : /\ exc = ValueError(MsgDuplicate)
                                     /\ exc.type = ValidationErrorType
                                     /\ exc.msg # MsgRequired)
    /\ UsersAreFirstRegistrations
    /\ (authRet.op = "create_user" /\ authRet.taken /\ authRet.password # <<>>)
        => authRet.exc = ValueError(MsgDuplicate)

\* C1 witness: a create_user call was refused as a duplicate although its text
\* differs from every text registered before.
C1_Witness ==
    /\ authRet.op = "create_user"
    /\ authRet.taken
    /\ authRet.exc = ValueError(MsgDuplicate)
    /\ \A i \in 1..Len(created) : created[i].email # authRet.email
    /\ \E i \in 1..Len(created) : created[i].password # authRet.password

\* The password the address of e was registered with, as a set (empty when the
\* address was never registered).
RegisteredPasswords(e) ==
    {created[i].password : i \in {j \in 1..Len(created) : SameAddress(created[j].email, e)}}

\* C2: verifyUser(email, password) is true exactly when the normalized e-mail
\* is registered and password is the one given at its registration; any other
\* password, an unregistered e-mail, an empty e-mail or password give false.
C2_VerifyOnlyRegisteredPassword ==
    /\ \A e \in Emails, p \in Passwords :
        /\ verify_user(users, e, p) => (p # <<>> /\ RegisteredPasswords(e) = {p})
        /\ (p = <<>> \/ Lower(Strip(e)) = <<>> \/ p \notin RegisteredPasswords(e))
            => ~verify_user(users, e, p)
    /\ (authRet.op = "verify_user" /\ authRet.val)
        => RegisteredPasswords(authRet.email) = {authRet.password}

\* C2 witness: a login was accepted for a registered user under another
\* spelling of the e-mail, and the table holds a second user.
C2_Witness ==
    /\ authRet.op = "verify_user"
    /\ authRet.val
    /\ Len(users) >= 2
    /\ \A i \in 1..Len(created) : created[i].email # authRet.email

(***************************************************************************)
(* Expense store: properties                                               *)
(***************************************************************************)

\* The number a run of digit codes spells.
RECURSIVE NumberOf(_)
NumberOf(codes) ==
    IF codes = <<>> THEN 0
    ELSE 10 * NumberOf(SubSeq(codes, 1, Len(codes) - 1)) + (codes[Len(codes)] - 48)

\* A text of the form YYYY-MM-DD.
IsIsoDate(text) ==
    /\ Len(text) = 10
    /\ text[5] = 45 /\ text[8] = 45
    /\ \A i \in {1, 2, 3, 4, 6, 7, 9, 10} : text[i] \in 48..57

\* The calendar day <<year, month, day>> a YYYY-MM-DD text names.
DayOfText(text) ==
    <<NumberOf(SubSeq(text, 1, 4)), NumberOf(SubSeq(text, 6, 7)), NumberOf(SubSeq(text, 9, 10))>>

\* The calendar day a date argument names.
DayOf(x) == IF x.t = "str" THEN DayOfText(x.v) ELSE SubSeq(x.v, 1, 3)

\* Day a is not after day b.
DayLeq(a, b) ==
    \/ a[1] < b[1]
    \/ a[1] = b[1] /\ a[2] < b[2]
    \/ a[1] = b[1] /\ a[2] = b[2] /\ a[3] <= b[3]

\* The keyword arguments of an add_expense call.
AddArgs(user_id, input) ==
    [k \in DOMAIN input \cup {"user_id"} |-> IF k = "user_id" THEN user_id ELSE input[k]]

\* The rows listExpenses gives the owner with no filters.
Unfiltered(tbl, user_id) == list_expenses(tbl, user_id, NoneObj, NoneObj, None, None)

\* A listed row reproduces the fields passed to addExpense, the date left aside.
SameFields(row, user_id, input) ==
    /\ row.user_id = user_id
    /\ row.amount = input.amount
    /\ row.currency = (IF input.currency = NotGiven THEN "BRL" ELSE input.currency)
    /\ row.category = input.category
    /\ row.description = input.description
    /\ row.account = input.account
    /\ row.receipt_path = input.receipt_path

\* addExpense then listExpenses with no filters: one listed row has the id
\* addExpense returned, and it reproduces the input under the given test of its
\* date.
RoundTrip(SameDate(_, _)) ==
    /\ \A user_id \in UserIds, input \in ExpenseInputs :
        LET r == add_expense(expenses, nextId, now, AddArgs(user_id, input))
            l == Unfiltered(r.tbl, user_id)
        IN /\ Cardinality({i \in 1..Len(l) : l[i].id = r.val}) = 1
           /\ \A i \in 1..Len(l) :
                l[i].id = r.val => SameFields(l[i], user_id, input) /\ SameDate(l[i].date, input.date)
    /\ expRet.op = "add_expense" =>
        LET l == Unfiltered(expenses, expRet.user_id) IN
        /\ \E i \in 1..Len(l) : l[i].id = expRet.val
        /\ \A i \in 1..Len(l) :
            l[i].id = expRet.val =>
                SameFields(l[i], expRet.user_id, expRet.arg) /\ SameDate(l[i].date, expRet.arg.date)

\* C3 as stated: addExpense followed by listExpenses with no filters returns a
\* row with the returned id whose every field, the date included, equals the
\* value that was passed in.
C3_RoundTripEveryFieldEqual ==
    RoundTrip(LAMBDA text, passed : StrObj(text) = passed)

\* C3 amended: every field equals the value passed in, except that the date
\* comes back as the YYYY-MM-DD text of the day passed in, which equals the
\* argument only when the date was passed as such a text.
C3_RoundTripDateAsIsoText ==
    RoundTrip(LAMBDA text, passed :
        /\ IsIsoDate(text)
        /\ DayOfText(text) = DayOf(passed)
        /\ passed.t = "str" => StrObj(text) = passed
        /\ passed.t # "str" => StrObj(text) # passed)

\* C3 witness: an expense was just added with a date object beside another
\* row of the same owner, and the owner's listing holds both.
C3_Witness ==
    /\ expRet.op = "add_expense"
    /\ expRet.arg.date.t = "date"
    /\ Len(Unfiltered(expenses, expRet.user_id)) = 2
    /\ \E i \in 1..2 : Unfiltered(expenses, expRet.user_id)[i].id = expRet.val

\* The rows of the owner that satisfy every supplied filter.
Satisfying(user_id, start_date, end_date, category, account) ==
    {r \in expenses :
        /\ r.user_id = user_id
        /\ start_date # NoneObj => DayLeq(DayOf(start_date), DayOfText(r.date))
        /\ end_date # NoneObj => DayLeq(DayOfText(r.date), DayOf(end_date))
        /\ category # None => r.category = category
        /\ account # None => r.account = account}

\* C4: listExpenses returns exactly the owner's rows that satisfy every supplied
\* filter, each once, by date descending and, for the same date, id descending;
\* ids grow with insertion, so the later of two same-day expenses comes first.
C4_ListFilteredAndOrdered ==
    /\ \A r \in expenses : IsIsoDate(r.date) /\ r.id < nextId
    /\ \A user_id \in UserIds, start_date \in DateFilters, end_date \in DateFilters,
          category \in CategoryFilters, account \in AccountFilters :
        LET l == list_expenses(expenses, user_id, start_date, end_date, category, account) IN
        /\ {l[i] : i \in 1..Len(l)} = Satisfying(user_id, start_date, end_date, category, account)
        /\ \A i \in 1..Len(l), j \in 1..Len(l) :
            i < j =>
                /\ l[i].id # l[j].id
                /\ DayLeq(DayOfText(l[j].date), DayOfText(l[i].date))
                /\ l[i].date = l[j].date => l[i].id > l[j].id

\* C4 witness: a listing returned two same-day expenses of one owner, the later
\* inserted first, one of them moved to that day by an update.
C4_Witness ==
    /\ expRet.op = "list_expenses"
    /\ expRet.val = <<2, 1>>
    /\ \E r \in expenses, q \in expenses :
        /\ r.id = 1 /\ q.id = 2
        /\ r.date = q.date
        /\ r.updated_at # r.created_at

\* The sum of a sequence of rows' amounts.
RECURSIVE AmountsOf(_)
AmountsOf(rows) == IF rows = <<>> THEN 0 ELSE Head(rows).amount + AmountsOf(Tail(rows))

\* C5: totalSpent(user, startDate, endDate) is the sum of the amounts of the rows
\* listExpenses returns for the same user and range with no category or account
\* filter, and is the number 0, never a null, when no row matches.
C5_TotalIsSumOfListed ==
    /\ \A user_id \in UserIds, start_date \in DateFilters, end_date \in DateFilters :
        LET total == total_spent(expenses, user_id, start_date, end_date)
            l == list_expenses(expenses, user_id, start_date, end_date, None, None)
        IN /\ total.exc = NoError
           /\ total.val = AmountsOf(l)
           /\ l = <<>> => total.val = 0
    /\ expRet.op = "total_spent" => expRet.exc = NoError

\* C5 witness: totalSpent returned 0 for a user none of whose rows match, while
\* the table holds another user's expense.
C5_Witness ==
    /\ expRet.op = "total_spent"
    /\ expRet.exc = NoError
    /\ expRet.val = 0
    /\ \A r \in expenses : r.user_id = expRet.user_id => r.amount > 0
    /\ \E r \in expenses : r.user_id # expRet.user_id /\ r.amount > 0
    /\ \E r \in expenses : r.user_id = expRet.user_id

\* The whitelist of patch keys (receiptPath is receipt_path in the code).
Whitelist == {"date", "amount", "currency", "category", "description", "account", "receipt_path"}

\* updateExpense with a patch that has a key outside the whitelist fails, under
\* the given test of its exception, and leaves every row as it was.
UnknownKeyRefused(Failure(_, _)) ==
    /\ \A user_id \in UserIds, expense_id \in 1..MaxId, fields \in Patches :
        (DOMAIN fields \ Whitelist # {}) =>
            LET r == call_update_expense(expenses, now, expense_id, user_id, fields) IN
            /\ Failure(fields, r.exc)
            /\ r.tbl = expenses
    /\ (expRet.op = "update_expense" /\ DOMAIN expRet.arg.fields \ Whitelist # {})
        => Failure(expRet.arg.fields, expRet.exc)

\* C8 as stated: a patch with a key outside the whitelist (e.g. user_id), with
\* or without whitelisted keys beside it, fails with the validation error and
\* leaves every field of every row unchanged, the updated timestamp included.
C8_UnknownKeyIsValidationError ==
    UnknownKeyRefused(LAMBDA fields, exc : exc.type = "ValueError")

\* C8 amended: such a patch fails and leaves every row unchanged; the error is
\* the ValueError of the whitelist check unless the key is user_id or
\* expense_id, the call's own parameters, for which the call raises TypeError.
C8_UnknownKeyRefused ==
    UnknownKeyRefused(LAMBDA fields, exc :
        IF DOMAIN fields \cap {"user_id", "expense_id"} = {}
        THEN exc = ValueError(MsgUnknown)
        ELSE exc.type = "TypeError")

\* C8 witness: an update of an existing row of the caller, with a whitelisted
\* and an unknown key, was refused after the row had been updated before.
C8_Witness ==
    /\ expRet.op = "update_expense"
    /\ expRet.exc.type = "ValueError"
    /\ DOMAIN expRet.arg.fields \cap Whitelist # {}
    /\ \E r \in expenses :
        /\ r.id = expRet.arg.expense_id
        /\ r.user_id = expRet.user_id
        /\ r.updated_at # r.created_at

\* The rows that are not the user's.
RowsOfOthers(tbl, user_id) == {r \in tbl : r.user_id # user_id}

\* The rows the (id, owner) pair names.
Named(expense_id, user_id) == {r \in expenses : r.id = expense_id /\ r.user_id = user_id}

\* Owner scoping: the reads of user u see only u's rows, a delete or update by
\* u leaves the rows of the others alone, a pair that matches no row changes
\* nothing and, for the patches given, reports no error, and a matching delete
\* removes that one row.
OwnerScoped(SilentPatches) ==
    /\ \A user_id \in UserIds, start_date \in DateFilters, end_date \in DateFilters :
        LET own == expenses \ RowsOfOthers(expenses, user_id) IN
        /\ total_spent(expenses, user_id, start_date, end_date)
             = total_spent(own, user_id, start_date, end_date)
        /\ \A category \in CategoryFilters, account \in AccountFilters :
            LET l == list_expenses(expenses, user_id, start_date, end_date, category, account) IN
            /\ \A i \in 1..Len(l) : l[i].user_id = user_id
            /\ l = list_expenses(own, user_id, start_date, end_date, category, account)
    /\ \A user_id \in UserIds, expense_id \in 1..MaxId :
        LET d == delete_expense(expenses, expense_id, user_id) IN
        /\ RowsOfOthers(d, user_id) = RowsOfOthers(expenses, user_id)
        /\ Named(expense_id, user_id) = {} => d = expenses
        /\ Named(expense_id, user_id) # {} =>
            /\ Cardinality(Named(expense_id, user_id)) = 1
            /\ d = expenses \ Named(expense_id, user_id)
            /\ Cardinality(d) = Cardinality(expenses) - 1
        /\ \A fields \in Patches :
            LET r == call_update_expense(expenses, now, expense_id, user_id, fields) IN
            /\ RowsOfOthers(r.tbl, user_id) = RowsOfOthers(expenses, user_id)
            /\ Named(expense_id, user_id) = {} =>
                /\ r.tbl = expenses
                /\ fields \in SilentPatches => r.exc = NoError
                /\ fields \notin SilentPatches => r.exc.type \in {"ValueError", "TypeError"}
    /\ (expRet.op = "update_expense" /\ expRet.arg.fields \in SilentPatches
        /\ Named(expRet.arg.expense_id, expRet.user_id) = {})
        => expRet.exc = NoError

\* C9 as stated: owner scoping, where a deleteExpense or updateExpense whose
\* (id, owner) pair matches no row changes nothing and reports no error.
C9_OwnerScopedSilentMiss ==
    OwnerScoped(Patches)

\* C9 amended: the same, except that an updateExpense whose pair matches no row
\* reports no error only when every patch key is whitelisted; with another key
\* it raises (and still changes nothing).
C9_OwnerScopedSilentMissOfValidPatch ==
    OwnerScoped({fields \in Patches : DOMAIN fields \subseteq Whitelist})

\* C9 witness: a user's update with a whitelisted patch named an expense that
\* exists but belongs to another user, and returned normally.
C9_Witness ==
    /\ expRet.op = "update_expense"
    /\ expRet.exc = NoError
    /\ DOMAIN expRet.arg.fields # {}
    /\ \E r \in expenses :
        /\ r.id = expRet.arg.expense_id
        /\ r.user_id # expRet.user_id
        /\ r.updated_at = r.created_at
    /\ \E r \in expenses : r.user_id = expRet.user_id

(***************************************************************************)
(* Settings store: properties                                              *)
(***************************************************************************)

\* The user's stored list, or the default list a first read would create.
ListOf(tbl, user_id, field) ==
    IF user_id \in DOMAIN tbl THEN tbl[user_id][field].json
    ELSE IF field = "categories"
    THEN << <<"A", "l", "i", "m", "e", "n", "t", "a", "c", "a", "o">>,
            <<"T", "r", "a", "n", "s", "p", "o", "r", "t", "e">>,
            <<"H", "o", "s", "p", "e", "d", "a", "g", "e", "m">>,
            <<"L", "a", "z", "e", "r">>,
            <<"C", "o", "m", "p", "r", "a", "s">>,
            <<"O", "u", "t", "r", "o", "s">> >>
    ELSE <<>>

\* How often the name occurs in the list.
Occurrences(list, name) == Cardinality({i \in 1..Len(list) : list[i] = name})

\* The table but for one field of one user's row.
Elsewhere(tbl, user_id, field) ==
    [u \in DOMAIN tbl |->
        IF u = user_id THEN [f \in DOMAIN tbl[u] \ {field} |-> tbl[u][f]] ELSE tbl[u]]

\* The two tables hold the same rows.
SameTable(a, b) ==
    /\ DOMAIN a = DOMAIN b
    /\ \A u \in DOMAIN a : a[u] = b[u]

\* Calling add twice with a name is calling it once, the trimmed name is then
\* in the list once; an empty or present name leaves the list as it was and a
\* new name goes to the end.
IdempotentAdd(Add(_, _, _), field, inputs) ==
    \A user_id \in UserIds, name \in inputs :
        LET once == Add(settings, user_id, name)
            twice == Add(once, user_id, name)
            before == ListOf(settings, user_id, field)
            after == ListOf(once, user_id, field)
            n == Strip(name)
        IN /\ SameTable(twice, once)
           /\ n = <<>> => SameTable(once, settings)
           /\ n # <<>> =>
                /\ Occurrences(after, n) = 1
                /\ SameTable(Elsewhere(once, user_id, field),
                             Elsewhere(EnsureRow(settings, user_id), user_id, field))
           /\ (n # <<>> /\ Occurrences(before, n) > 0) => after = before
           /\ (n # <<>> /\ Occurrences(before, n) = 0) => after = Append(before, n)

\* C6: addCategory and addAccount are idempotent: twice is once, the trimmed
\* name occurs exactly once; an empty or already present name (exact,
\* case-sensitive match) leaves the list unchanged, a new name is appended.
C6_AddIsIdempotent ==
    /\ IdempotentAdd(add_category, "categories", CategoryInputs)
    /\ IdempotentAdd(add_account, "accounts", AccountInputs)

\* C6 witness: addCategory was called with an untrimmed name that an earlier
\* call had added, another name having been added in between, and the list
\* holds it once.
C6_Witness ==
    /\ setRet.op = "add_category"
    /\ setRet.arg = <<" ", "B", "a", "r", " ">>
    /\ LET l == ListOf(settings, setRet.user_id, "categories") IN
       /\ Len(l) = 8
       /\ l[7] = <<"B", "a", "r">>
       /\ l[8] = <<"b", "a", "r">>

\* C7: for a user id with no settings row, getSettings creates the row and
\* returns the six default categories in their order, no accounts and a null
\* monthly budget.
C7_DefaultsForNewUser ==
    /\ \A user_id \in UserIds :
        user_id \notin DOMAIN settings =>
            LET g == get_settings(settings, user_id) IN
            /\ g.val = [categories |-> ListOf(<<>>, user_id, "categories"),
                        accounts |-> <<>>,
                        monthly_budget |-> SqlNull]
            /\ DOMAIN g.tbl = DOMAIN settings \cup {user_id}
            /\ \A u \in DOMAIN settings : g.tbl[u] = settings[u]
            /\ SameTable(get_settings(g.tbl, user_id).tbl, g.tbl)
            /\ get_settings(g.tbl, user_id).val = g.val
    /\ (setRet.op = "get_settings" /\ ~setRet.hadRow) =>
        /\ setRet.user_id \in DOMAIN settings
        /\ Len(settings[setRet.user_id].categories.json) = 6
        /\ settings[setRet.user_id].accounts.json = <<>>
        /\ settings[setRet.user_id].monthly_budget = SqlNull

\* C7 witness: getSettings was just called for a user without a row, while the
\* other user's row had been changed.
C7_Witness ==
    /\ setRet.op = "get_settings"
    /\ ~setRet.hadRow
    /\ \E u \in DOMAIN settings :
        /\ u # setRet.user_id
        /\ Len(settings[u].categories.json) = 7
        /\ settings[u].monthly_budget # SqlNull

\* C10: two addCategory calls with different new names for one user: when both
\* reads precede both writes the stored list holds the name of the call that
\* wrote last and not the other's (the first write is lost), whereas the two
\* calls one after the other, in either order, leave both names in the list.
C10_LastWriterWins ==
    /\ raceLog.stage = "first" =>
        In(raceLog.first, ListOf(settings, raceLog.user_id, "categories"))
    /\ raceLog.stage = "both" =>
        /\ In(raceLog.last, ListOf(settings, raceLog.user_id, "categories"))
        /\ ~In(raceLog.first, ListOf(settings, raceLog.user_id, "categories"))
    /\ \A user_id \in RaceUserIds, n1 \in CategoryInputs, n2 \in CategoryInputs :
        LET before == ListOf(settings, user_id, "categories")
            after == ListOf(add_category(add_category(settings, user_id, n1), user_id, n2),
                            user_id, "categories")
        IN (/\ Strip(n1) # <<>> /\ Strip(n2) # <<>>
            /\ Strip(n1) # Strip(n2)
            /\ ~In(Strip(n1), before) /\ ~In(Strip(n2), before))
           => /\ In(Strip(n1), after) /\ In(Strip(n2), after)
              /\ Len(after) = Len(before) + 2

\* C10 witness: both sessions read, then both wrote, and every call has
\* returned.
C10_Witness ==
    /\ raceLog.stage = "both"
    /\ \A w \in Sessions : run[w].pc = "idle"

\* C11: setMonthlyBudget replaces the stored budget with the value (a number
\* or null) whatever it was and leaves the user's lists and the other rows
\* alone when the row exists; without a row it creates none, so that the next
\* getSettings returns a null budget and not the value set.
C11_BudgetOverwritesExistingRowOnly ==
    /\ \A user_id \in UserIds, budget \in BudgetInputs :
        LET t == set_monthly_budget(settings, user_id, budget) IN
        IF user_id \in DOMAIN settings
        THEN /\ DOMAIN t = DOMAIN settings
             /\ t[user_id].monthly_budget = budget
             /\ get_settings(t, user_id).val.monthly_budget = budget
             /\ t[user_id].categories = settings[user_id].categories
             /\ t[user_id].accounts = settings[user_id].accounts
             /\ \A u \in DOMAIN settings \ {user_id} : t[u] = settings[u]
        ELSE /\ SameTable(t, settings)
             /\ get_settings(t, user_id).val.monthly_budget = SqlNull
    /\ (setRet.op = "set_monthly_budget" /\ ~setRet.hadRow) =>
        setRet.user_id \notin DOMAIN settings

\* C11 witness: a number was just saved for a user without a row, and no row
\* was made, while the other user's row holds a saved number next to the
\* lists that user had changed.
C11_Witness ==
    /\ setRet.op = "set_monthly_budget"
    /\ ~setRet.hadRow
    /\ setRet.arg = SqlNumber(100)
    /\ setRet.user_id \notin DOMAIN settings
    /\ \E u \in DOMAIN settings :
        /\ settings[u].monthly_budget = SqlNumber(100)
        /\ Len(settings[u].categories.json) = 7
        /\ Len(settings[u].accounts.json) = 1

(***************************************************************************)
(* Expense store: the frame of an update                                   *)
(***************************************************************************)

\* Patches of whitelisted keys, with values of the columns' kinds.
WhitelistedPatches ==
    { <<>>,
      [date |-> Text_2024_01_10, amount |-> 9],
      [receipt_path |-> None],
      [currency |-> "EUR", category |-> "Compras", description |-> "", account |-> "Nubank"],
      [date |-> Text_2024_01_02, amount |-> 0, currency |-> "BRL", category |-> "Lazer",
       description |-> "museu", account |-> "Dinheiro", receipt_path |-> "r.png"] }

\* C12: updateExpense with a patch of whitelisted keys on the row whose id and
\* owner both match sets exactly the patched fields to the patch values and
\* refreshes the updated timestamp; id, owner, created timestamp, the unpatched
\* fields and every other row stay as they were; an empty patch is a no-op.
C12_UpdatePatchesExactlyTheFields ==
    /\ \A user_id \in UserIds, expense_id \in 1..MaxId, fields \in WhitelistedPatches :
        \A r \in Named(expense_id, user_id) :
            LET res == call_update_expense(expenses, now, expense_id, user_id, fields)
                others == expenses \ {r}
            IN /\ res.exc.type = "none"
               /\ DOMAIN fields = {} => res.tbl = expenses
               /\ DOMAIN fields # {} =>
                    /\ Cardinality(res.tbl) = Cardinality(expenses)
                    /\ others \subseteq res.tbl
                    /\ \A q \in res.tbl \ others :
                        /\ \A k \in DOMAIN fields : q[k] = fields[k]
                        /\ \A k \in Whitelist \ DOMAIN fields : q[k] = r[k]
                        /\ q.id = r.id
                        /\ q.user_id = r.user_id
                        /\ q.created_at = r.created_at
                        /\ q.updated_at.t = now
                        /\ q.updated_at.fmt = "YYYY-MM-DDTHH:MM:SS.ffffff"
    /\ (/\ expRet.op = "update_expense"
        /\ expRet.exc.type = "none"
        /\ DOMAIN expRet.arg.fields # {}) =>
            \A r \in Named(expRet.arg.expense_id, expRet.user_id) :
                /\ \A k \in DOMAIN expRet.arg.fields : r[k] = expRet.arg.fields[k]
                /\ r.updated_at.t <= now
                /\ r.updated_at # r.created_at

\* C12 witness: a user's own expense, recorded earlier with another date and
\* amount, was just patched, next to a row that was never patched.
C12_Witness ==
    /\ expRet.op = "update_expense"
    /\ expRet.exc.type = "none"
    /\ DOMAIN expRet.arg.fields = {"date", "amount"}
    /\ \E r \in Named(expRet.arg.expense_id, expRet.user_id) :
        /\ r.amount = 9
        /\ r.date = Text_2024_01_10
        /\ r.category = "Transporte"
        /\ r.created_at.t = 0
        /\ r.updated_at.t = 1
    /\ \E q \in expenses :
        /\ q.id # expRet.arg.expense_id
        /\ q.updated_at = q.created_at

(***************************************************************************)
(* Settings store: removal                                                 *)
(***************************************************************************)

\* The list without its i-th element.
Without(list, i) == SubSeq(list, 1, i - 1) \o SubSeq(list, i + 1, Len(list))

\* Remove takes out the first element equal to the name as given and keeps the
\* others in order; a name that is not in the list leaves the list as it was;
\* afterwards the name is not in the list; nothing else is touched.
RemovesFirstExactMatch(Remove(_, _, _), field, names) ==
    \A user_id \in UserIds, name \in names :
        LET t == Remove(settings, user_id, name)
            before == ListOf(settings, user_id, field)
            after == ListOf(t, user_id, field)
            at == {i \in 1..Len(before) : before[i] = name}
        IN /\ user_id \in DOMAIN t
           /\ at = {} => after = before
           /\ at # {} => \E i \in at : /\ \A j \in at : i <= j
                                       /\ after = Without(before, i)
           /\ ~In(name, after)
           /\ SameTable(Elsewhere(t, user_id, field),
                        Elsewhere(EnsureRow(settings, user_id), user_id, field))

\* C13: removeCategory and removeAccount remove the first element equal to the
\* name, untrimmed, keep the rest in order and persist the list; an absent
\* name changes nothing and is no error; after a removeCategory at the end of
\* any serial sequence of settings operations the name is not in the list.
C13_RemoveFirstExactMatch ==
    /\ RemovesFirstExactMatch(remove_category, "categories",
                              CategoryInputs \cup {<<"B", "a", "r">>, <<"L", "a", "z", "e", "r">>})
    /\ RemovesFirstExactMatch(remove_account, "accounts", AccountInputs)
    /\ setRet.op = "remove_category" =>
        ~In(setRet.arg, ListOf(settings, setRet.user_id, "categories"))
    /\ setRet.op = "remove_account" =>
        ~In(setRet.arg, ListOf(settings, setRet.user_id, "accounts"))

\* C13 witness: a default category was just removed from the middle of a list
\* to which two names had been added, and these follow the remaining defaults.
C13_Witness ==
    /\ setRet.op = "remove_category"
    /\ setRet.arg = <<"O", "u", "t", "r", "o", "s">>
    /\ setRet.hadRow
    /\ LET l == ListOf(settings, setRet.user_id, "categories") IN
       /\ Len(l) = 7
       /\ l[5] = <<"C", "o", "m", "p", "r", "a", "s">>
       /\ l[6] = <<"B", "a", "r">>
       /\ l[7] = <<"b", "a", "r">>

(***************************************************************************)
(* Settings store: invariants under concurrent callers                     *)
(***************************************************************************)

\* No name is in the list twice.
NoDuplicates(list) == \A i, j \in 1..Len(list) : list[i] = list[j] => i = j

\* C14: in every reachable state each user's stored category list and account
\* list hold no name twice, also when the reads and writes of concurrent calls
\* for one user interleave.
C14_StoredListsHaveNoDuplicates ==
    \A u \in DOMAIN settings :
        /\ NoDuplicates(settings[u].categories.json)
        /\ NoDuplicates(settings[u].accounts.json)

\* C14 witness: a session that read a list without the name is about to write
\* the list with the name appended, and the other session, which had read the
\* same, has stored the name in the meantime and returned.
C14_Witness ==
    \E w \in Sessions :
        /\ run[w].pc = "update"
        /\ run[w].op = "add_category"
        /\ ~In(run[w].arg, run[w].read.categories)
        /\ In(run[w].arg, ListOf(settings, run[w].user_id, "categories"))
        /\ Len(ListOf(settings, run[w].user_id, "categories")) = 8
        /\ run[Peer(w)].pc = "idle"

\* Some session completes a list write on the field for the user in this step.
WritesField(u, field) ==
    \E w \in Sessions :
        /\ run[w].pc = "update"
        /\ run[w].user_id = u
        /\ run[w].field = field
        /\ run'[w].pc = "idle"

\* What one step may do to the rows there are: it keeps every row; a list
\* column changes only in the write step of a call on that list, and the
\* budget only in a budget call, the other two columns staying as stored
\* (whatever that caller had read of them); the insert-if-absent and the read
\* of any call leave every existing row as it is.
StepWritesItsColumnOnly ==
    /\ \A u \in DOMAIN settings :
        /\ u \in DOMAIN settings'
        /\ settings'[u].categories # settings[u].categories =>
            /\ WritesField(u, "categories")
            /\ settings'[u].accounts = settings[u].accounts
            /\ settings'[u].monthly_budget = settings[u].monthly_budget
        /\ settings'[u].accounts # settings[u].accounts =>
            /\ WritesField(u, "accounts")
            /\ settings'[u].categories = settings[u].categories
            /\ settings'[u].monthly_budget = settings[u].monthly_budget
        /\ settings'[u].monthly_budget # settings[u].monthly_budget =>
            /\ run' = run
            /\ settings'[u].categories = settings[u].categories
            /\ settings'[u].accounts = settings[u].accounts
        /\ (\E w \in Sessions : run[w].pc \in {"ensure", "select"} /\ run'[w] # run[w]) =>
            settings'[u] = settings[u]
    /\ \A u \in DOMAIN settings' \ DOMAIN settings :
        \E w \in Sessions : /\ run[w].pc = "ensure" /\ run[w].user_id = u
                            /\ run'[w].pc = "select"

\* C15: a settings mutation writes only its own column: under any interleaving
\* of the steps of concurrent calls for one user, a category write never
\* changes the accounts or the budget, an account write never the categories
\* or the budget, a budget write never a list, and getSettings never resets an
\* existing row to the defaults.
C15_WritesConfinedToOwnColumn == [][StepWritesItsColumnOnly]_vars

\* C15 witness: a session is about to write the account list, and since it
\* read the row the other session has stored a new category and a budget has
\* been saved: what it read of the two other columns is stale.
C15_Witness ==
    \E w \in Sessions :
        /\ run[w].pc = "update"
        /\ run[w].op = "add_account"
        /\ ~In(run[w].arg, run[w].read.accounts)
        /\ run[w].user_id \in DOMAIN settings
        /\ Len(run[w].read.categories) < Len(settings[run[w].user_id].categories.json)
        /\ run[w].read.monthly_budget = SqlNull
        /\ settings[run[w].user_id].monthly_budget = SqlNumber(100)

(***************************************************************************)
(* Pages: the session                                                      *)
(***************************************************************************)

\* The e-mail column of the users table.
RegisteredEmails == {users[i].email : i \in 1..Len(users)}

\* The two session states have the same keys and values.
SameSession(a, b) ==
    /\ DOMAIN a = DOMAIN b
    /\ \A k \in DOMAIN a : a[k] = b[k]

\* C16: whenever the session holds a user_id it is the trimmed, lower-cased
\* e-mail of a registered user whom verifyUser accepted in the session; a
\* failed login leaves the session as it was and logout removes user_id; the
\* expense, dashboard and settings pages call the stores only while user_id is
\* present, and with that user_id, so that every stored row belongs to a user
\* who had logged in.
C16_SessionHoldsVerifiedUser ==
    /\ LoggedIn(session_state) =>
        /\ session_state["user_id"] \in RegisteredEmails
        /\ session_state["user_id"] \in verified
        /\ Lower(Strip(session_state["user_id"])) = session_state["user_id"]
        /\ session_state["user_id"] # <<>>
    /\ (uiRet.ev = "login" /\ ~uiRet.ok) =>
        /\ SameSession(session_state, uiRet.before)
        /\ ~LoggedIn(session_state)
    /\ uiRet.ev = "logout" => ~LoggedIn(session_state)
    /\ uiRet.page \in {"1_Registrar_Gasto", "2_Dashboard", "3_Configuracoes"} =>
        /\ SameSession(session_state, uiRet.before)
        /\ IF LoggedIn(uiRet.before)
           THEN uiRet.calls = {uiRet.before["user_id"]}
           ELSE uiRet.calls = {} /\ uiRet.stopped
    /\ \A r \in expenses : r.user_id \in verified
    /\ DOMAIN settings \subseteq verified
    /\ verified \subseteq RegisteredEmails

\* C16 witness: a user who typed the address with capitals and blanks is
\* logged in under the normalised address and has just submitted an expense,
\* after changing the categories; another user had logged in before and has
\* an expense too.
C16_Witness ==
    /\ LoggedIn(session_state)
    /\ session_state["user_id"] = <<"a", "@", "b">>
    /\ uiRet.page = "1_Registrar_Gasto"
    /\ uiRet.ev = "submit"
    /\ uiRet.calls = {<<"a", "@", "b">>}
    /\ \E r \in expenses : r.user_id = <<"a", "@", "b">> /\ r.category = <<"B", "a", "r">>
    /\ \E r \in expenses : r.user_id = <<"c", "@", "d">>
    /\ Cardinality(verified) = 2

=============================================================================
